---- MODULE Spec2Model ----
(***************************************************************************)
(* Remote job execution and status polling of zyphar-eda-mcp               *)
(* (src/index.ts): the detached-job launcher startBackgroundJob, the       *)
(* detached wrapper process it spawns on the remote host, and the status   *)
(* poller checkJobStatus, for one job directory.                           *)
(*                                                                         *)
(* Texts are modelled as sequences of tokens; a log is a sequence of       *)
(* lines, each line a sequence of tokens.  Every runOnEC2 call is one      *)
(* remote command that either delivers its output or rejects (connection   *)
(* error or timeout); runOnEC2 never looks at the remote exit status.      *)
(*                                                                         *)
(* Further parts have specifications of their own: one runOnEC2 call,     *)
(* event by event (SpecCall), one uploadFile call (SpecUpload), the Stats  *)
(* Parser (SpecParse), the loop of the design-sweep tool over its variant  *)
(* directories (SpecSweep, SpecSweepTool), and the reports of check-drc    *)
(* and verify-equivalence (SpecVerify).                                    *)
(***************************************************************************)
EXTENDS Integers, Sequences, FiniteSets, TLC

(* ----------------------------- bounds -------------------------------- *)
MaxPolls == 2        \* status() calls made on the job directory
MaxBursts == 2       \* bursts of output the command writes to output.log
MaxTime == 3         \* the clock stops here
BurstLines == 11     \* lines the command writes per burst
TickMs == 500        \* milliseconds per clock tick
MaxList == 2         \* longest list of pdks and of frequencies of a design-sweep
MaxChunks == 3       \* chunks of output a runOnEC2 call receives
MaxLogLines == 2     \* lines of a log text given to the Stats Parser
MaxOut == 3          \* tokens of an output of the DRC or equivalence tool

(* ------------------------ program constants -------------------------- *)
TailLines == 20      \* tail -20 of the died-process diagnostic
LastLines == 30      \* slice(-30) of the nonzero-exit diagnostic
DetailLength == 2000 \* slice(-2000) of the details of a check-drc report

Pids == {"4711"}     \* the process ids the host hands out to the job
ExitStatuses == {0, 7}

VARIABLES
  now,        \* Date.now(), in ticks
  outDir,     \* jobDir/output exists
  metaFile,   \* jobDir/meta.json
  pidFile,    \* jobDir/pid
  exitFile,   \* jobDir/exit_code
  logFile,    \* jobDir/output.log
  gds,        \* a *.gds file exists under jobDir/output
  proc,       \* the wrapper process: its position in the bash -c script
  procPid,    \* its process id ($!)
  detached,   \* it was started with nohup ... > /dev/null 2>&1 &
  exitStatus, \* $? of the wrapped command
  others,     \* pids of other live processes of the same user
  start,      \* the startBackgroundJob call
  poll,       \* the checkJobStatus call in progress
  hist,       \* results of the finished checkJobStatus calls, in order
  changedAt,  \* number of polls started when the remote state last changed
  held,       \* since the poll in progress began, the marker has been absent
              \* and the recorded process alive, at every moment
  call,       \* one runOnEC2 call, event by event
  sweep,      \* one design-sweep invocation and the job directories it uses
  parse,      \* one log text, its parsed stats and what get-job-status shows
  up,         \* one uploadFile call, event by event
  verify      \* one check-drc or verify-equivalence invocation and its report

remote == <<outDir, metaFile, pidFile, exitFile, logFile, gds, proc, procPid,
            detached, exitStatus, others>>
job == <<now, outDir, metaFile, pidFile, exitFile, logFile, gds, proc, procPid,
         detached, exitStatus, others, start, poll, hist, changedAt, held>>
vars == <<now, outDir, metaFile, pidFile, exitFile, logFile, gds, proc, procPid,
          detached, exitStatus, others, start, poll, hist, changedAt, held,
          call, sweep, parse, up, verify>>

(* ------------------------------ texts -------------------------------- *)
NoFile == [exists |-> FALSE, content |-> <<>>]
File(c) == [exists |-> TRUE, content |-> c]

Max(a, b) == IF a > b THEN a ELSE b

\* String.prototype.trim on a token sequence: blanks at both ends go
RECURSIVE TrimLeft(_)
TrimLeft(s) == IF s # <<>> /\ Head(s) = " " THEN TrimLeft(Tail(s)) ELSE s
RECURSIVE TrimRight(_)
TrimRight(s) ==
  IF s # <<>> /\ s[Len(s)] = " " THEN TrimRight(SubSeq(s, 1, Len(s) - 1)) ELSE s
Trim(s) == TrimRight(TrimLeft(s))

\* the last n elements of a sequence: tail -n, Array.prototype.slice(-n)
LastN(s, n) == SubSeq(s, Max(1, Len(s) - n + 1), Len(s))

\* echo $? : the decimal text of an exit status
CodeText(c) ==
  CASE c = 0 -> "0"
    [] c = 1 -> "1"
    [] c = 7 -> "7"
    [] OTHER -> "255"

\* line i of the wrapped command's output
LineAt(i) ==
  CASE i = 1 -> <<"Cells:", " ", "12">>
    [] i = 2 -> <<" ", "WNS:", " ", "-0.05", " ">>
    [] i = BurstLines + 1 -> <<"Area:", "77">>
    [] i = 2 * BurstLines -> <<"Flow completed">>
    [] OTHER -> <<"line", CodeText(i % 2)>>

(* --------------------------- Stats Parser ---------------------------- *)
\* output.split("\n") of a text whose lines all end in a newline
SplitLines(text) == text \o << <<>> >>

\* /^Cells:/.test(trimmed) etc.: the trimmed line starts with the prefix
StartsWith(trimmed, prefix) == trimmed # <<>> /\ Head(trimmed) = prefix

\* trimmed.replace(prefix, "").trim()
Remainder(trimmed) == Trim(Tail(trimmed))

\* the table of the loop: [prefix, field] for each if of its body
Patterns ==
  << <<"Cells:", "cells">>, <<"Area:", "area">>, <<"WNS:", "wns">>,
     <<"Instances:", "instances">>, <<"Duration:", "duration">> >>

\* the lines at which the loop assigns the field of pattern p
Matches(lines, p) ==
  {i \in 1..Len(lines) : StartsWith(Trim(lines[i]), Patterns[p][1])}

\* the lines at which the loop sets stats.status
Completions(lines) ==
  {i \in 1..Len(lines) : \E k \in 1..Len(Trim(lines[i])) :
                           Trim(lines[i])[k] = "Flow completed"}

\* const stats: Record<string, string> = {}
NoStats == [k \in {} |-> <<>>]

\* a variant that tests the untrimmed line against the prefixes
parseDesignStatsUntrimmed(output) ==
  LET lines == SplitLines(output)
      hits(p) == {i \in 1..Len(lines) : StartsWith(lines[i], Patterns[p][1])}
      last(m) == CHOOSE i \in m : \A j \in m : j <= i
      fields == {Patterns[p][2] : p \in {q \in 1..Len(Patterns) : hits(q) # {}}}
                  \cup (IF Completions(lines) # {} THEN {"status"} ELSE {})
  IN  [f \in fields |->
         IF f = "status" THEN <<"completed">>
         ELSE LET p == CHOOSE q \in 1..Len(Patterns) : Patterns[q][2] = f
              IN  Remainder(Trim(lines[last(hits(p))]))]

\* The loop assigns a field at every line that matches its pattern, so stats
\* ends with exactly the fields that have a matching line, each with the
\* value of its last matching line.
parseDesignStats(output) ==
  LET lines == SplitLines(output)
      last(m) == CHOOSE i \in m : \A j \in m : j <= i
      fields == {Patterns[p][2] : p \in {q \in 1..Len(Patterns) : Matches(lines, q) # {}}}
                  \cup (IF Completions(lines) # {} THEN {"status"} ELSE {})
  IN  [f \in fields |->
         IF f = "status" THEN <<"completed">>
         ELSE LET p == CHOOSE q \in 1..Len(Patterns) : Patterns[q][2] = f
              IN  Remainder(Trim(lines[last(Matches(lines, p))]))]

(* ----------------------- remote shell commands ----------------------- *)
\* cat meta.json 2>/dev/null || echo '{}', then JSON.parse and meta.startTime
\* (0 stands for an absent, hence falsy, startTime)
MetaStartTime(mf) == IF mf.exists THEN mf.content.startTime ELSE 0

\* [ -f exit_code ] && echo "DONE:$(cat exit_code)" || echo "RUNNING", trimmed
ExitCheckOutput(ef) ==
  IF ef.exists THEN <<"DONE:">> \o TrimRight(ef.content) ELSE <<"RUNNING">>

\* cat pid 2>/dev/null || echo "", trimmed
PidOutput(pf) == IF pf.exists THEN Trim(pf.content) ELSE <<>>

\* the processes kill -0 can signal
LivePids(pr, pp, oth) ==
  oth \cup (IF pr \in {"starting", "running", "finished", "marking"} THEN {pp} ELSE {})

\* kill -0 pid 2>/dev/null && echo "ALIVE" || echo "DEAD", trimmed
KillCheckOutput(pidRaw, live) ==
  IF Len(pidRaw) = 1 /\ pidRaw[1] \in live THEN <<"ALIVE">> ELSE <<"DEAD">>

\* a variant that keeps the first lines of the log instead of the last
TailOutputFirstLines(lf) ==
  IF lf.exists THEN SubSeq(lf.content, 1, IF Len(lf.content) < TailLines
                                            THEN Len(lf.content) ELSE TailLines)
  ELSE << <<"No log file">> >>

\* tail -20 output.log 2>/dev/null || echo "No log file", trimmed
TailOutput(lf) ==
  IF lf.exists THEN LastN(lf.content, TailLines) ELSE << <<"No log file">> >>

\* cat output.log 2>/dev/null || echo ""
CatLogOutput(lf) == IF lf.exists THEN lf.content ELSE << <<>> >>

\* a variant that searches for any file under output/
FindGdsOutputAnyFile(g) == <<"output/top.def">>

\* find output -name "*.gds" 2>/dev/null | head -1, then r.trim().length > 0
FindGdsOutput(g) == IF g THEN <<"output/top.gds">> ELSE <<>>

(* ------------------------------ Init ---------------------------------- *)
\* no output field (running)
NoOutput == [kind |-> "none", code |-> <<>>, lines |-> <<>>]

\* no runOnEC2 call under way
IdleCall ==
  [phase |-> "idle", conn |-> "new", timer |-> "none", stream |-> "none",
   cmd |-> "none", status |-> 0, output |-> <<>>, promise |-> "pending",
   result |-> <<>>, error |-> "none",
   env |-> [b64 |-> <<>>, raw |-> <<>>, file |-> NoFile], key |-> <<>>]

\* no design-sweep under way
IdleSweep == [pc |-> "idle"]

\* no log text parsed
IdleParse == [pc |-> "idle"]
IdleVerify == [pc |-> "idle"]

\* no uploadFile call under way
IdleUpload == [pc |-> "idle"]

IdleStart == [pc |-> "idle", startTime |-> 0, out |-> <<>>, pid |-> <<>>]

IdlePoll ==
  [pc |-> "idle", startTime |-> 0, elapsedSeconds |-> 0, exitCheck |-> <<>>,
   pidRaw |-> <<>>, psCheck |-> <<>>, output |-> NoOutput, stats |-> NoStats,
   hasGds |-> FALSE, designName |-> "",
   diedAtStart |-> FALSE]

Init ==
  /\ now = 1
  /\ outDir = FALSE
  /\ metaFile = NoFile
  /\ pidFile = NoFile
  /\ exitFile = NoFile
  /\ logFile = NoFile
  /\ gds = FALSE
  /\ proc = "none"
  /\ procPid = "none"
  /\ detached = FALSE
  /\ exitStatus = 0
  /\ others = {}
  /\ start = IdleStart
  /\ poll = IdlePoll
  /\ hist = <<>>
  /\ changedAt = 0
  /\ held = FALSE
  /\ call = IdleCall
  /\ sweep = IdleSweep
  /\ parse = IdleParse
  /\ verify = IdleVerify
  /\ up = IdleUpload

(* ------------------------- observation helpers ----------------------- *)
\* status() calls started so far
PollsStarted == Len(hist) + (IF poll.pc = "idle" THEN 0 ELSE 1)

\* no exit-code marker, and the process recorded in the pid file is alive
MarkerAbsentPidAlive(ef, pf, live) ==
  /\ ~ef.exists
  /\ pf.exists
  /\ Len(Trim(pf.content)) = 1
  /\ Trim(pf.content)[1] \in live

\* every step that changes the remote state notes how many polls had started
\* and whether the job still looks alive (last conjunct of its action)
Touch ==
  /\ changedAt' = PollsStarted
  /\ held' = (held /\ MarkerAbsentPidAlive(exitFile', pidFile',
                                           LivePids(proc', procPid', others')))

(* ---------------------- the detached wrapper process ------------------ *)
\* nohup bash -c '<env> && cmd > output.log 2>&1; echo $? > exit_code'

\* <env> && cmd > output.log 2>&1 : the redirection creates the log and the
\* command starts; when <env> or the redirection fails the command is not run
WrapperRun ==
  /\ proc = "starting"
  /\ \/ /\ outDir
        /\ proc' = "running"
        /\ logFile' = File(<<>>)
        /\ UNCHANGED exitStatus
     \/ /\ proc' = "finished"
        /\ exitStatus' = 1
        /\ UNCHANGED logFile
  /\ UNCHANGED <<call, sweep, parse, up, verify>>
  /\ UNCHANGED <<now, outDir, metaFile, pidFile, exitFile, gds, procPid, detached,
                 others, start, poll, hist>>
  /\ Touch

\* the command appends a burst of lines to its log; the flow writes its
\* layout under output/ in its second burst
CmdWrite ==
  /\ proc = "running"
  /\ Len(logFile.content) < MaxBursts * BurstLines
  /\ logFile' = File(logFile.content \o
                     [i \in 1..BurstLines |-> LineAt(Len(logFile.content) + i)])
  /\ gds' = (gds \/ Len(logFile.content) >= BurstLines)
  /\ UNCHANGED <<call, sweep, parse, up, verify>>
  /\ UNCHANGED <<now, outDir, metaFile, pidFile, exitFile, proc, procPid,
                 detached, exitStatus, others, start, poll, hist>>
  /\ Touch

\* the command terminates with status c
CmdExit(c) ==
  /\ proc = "running"
  /\ proc' = "finished"
  /\ exitStatus' = c
  /\ UNCHANGED <<call, sweep, parse, up, verify>>
  /\ UNCHANGED <<now, outDir, metaFile, pidFile, exitFile, logFile, gds, procPid,
                 detached, others, start, poll, hist>>
  /\ Touch

\* echo $? > exit_code, first half: the redirection creates the empty file
MarkerOpen ==
  /\ proc = "finished"
  /\ IF outDir
       THEN proc' = "marking" /\ exitFile' = File(<<>>)
       ELSE proc' = "exited" /\ UNCHANGED exitFile
  /\ UNCHANGED <<call, sweep, parse, up, verify>>
  /\ UNCHANGED <<now, outDir, metaFile, pidFile, logFile, gds, procPid, detached,
                 exitStatus, others, start, poll, hist>>
  /\ Touch

\* echo $? > exit_code, second half: the status is written, the wrapper exits
MarkerWrite ==
  /\ proc = "marking"
  /\ exitFile' = File(<<CodeText(exitStatus), " ">>)
  /\ proc' = "exited"
  /\ UNCHANGED <<call, sweep, parse, up, verify>>
  /\ UNCHANGED <<now, outDir, metaFile, pidFile, logFile, gds, procPid, detached,
                 exitStatus, others, start, poll, hist>>
  /\ Touch

(* --------------------------- the remote host -------------------------- *)
\* the wrapper is killed from outside (OOM killer, operator)
Kill ==
  /\ proc \in {"starting", "running", "finished", "marking"}
  /\ proc' = "killed"
  /\ UNCHANGED <<call, sweep, parse, up, verify>>
  /\ UNCHANGED <<now, outDir, metaFile, pidFile, exitFile, logFile, gds, procPid,
                 detached, exitStatus, others, start, poll, hist>>
  /\ Touch

\* another process of the same user starts and gets a process id that the
\* job had and that is free again
OtherStart(p) ==
  /\ p \notin LivePids(proc, procPid, others)
  /\ start.pc \notin {"idle", "mkdir", "spawn"}
  /\ others' = others \cup {p}
  /\ UNCHANGED <<call, sweep, parse, up, verify>>
  /\ UNCHANGED <<now, outDir, metaFile, pidFile, exitFile, logFile, gds, proc,
                 procPid, detached, exitStatus, start, poll, hist>>
  /\ Touch

\* another process exits
OtherExit(p) ==
  /\ p \in others
  /\ others' = others \ {p}
  /\ UNCHANGED <<call, sweep, parse, up, verify>>
  /\ UNCHANGED <<now, outDir, metaFile, pidFile, exitFile, logFile, gds, proc,
                 procPid, detached, exitStatus, start, poll, hist>>
  /\ Touch

\* time passes
Tick ==
  /\ now < MaxTime
  /\ now' = now + 1
  /\ UNCHANGED <<call, sweep, parse, up, verify>>
  /\ UNCHANGED <<outDir, metaFile, pidFile, exitFile, logFile, gds, proc, procPid,
                 detached, exitStatus, others, start, poll, hist, changedAt, held>>

(* ------------------------ startBackgroundJob -------------------------- *)
\* a variant that starts the wrapper attached to the launching session
SpawnAttached == FALSE

\* nohup bash -c '...' > /dev/null 2>&1 & : the wrapper is detached from the
\* launching session
SpawnDetached == TRUE

\* closing a connection hangs up the processes still attached to its session
Hangup(pr, det) ==
  IF pr \in {"starting", "running", "finished", "marking"} /\ ~det
    THEN "killed" ELSE pr

\* Each of the three runOnEC2 calls is one step: the command runs on the host
\* (ran) or the connection fails before it does; then the call resolves with
\* the output, whatever the exit status of the command, or rejects (timeout,
\* connection error), and a rejection rejects startBackgroundJob.

\* the call begins: metaJson gets startTime: Date.now() and status "running"
StartCall ==
  /\ start.pc = "idle"
  /\ start' = [start EXCEPT !.pc = "mkdir", !.startTime = now]
  /\ UNCHANGED <<call, sweep, parse, up, verify>>
  /\ UNCHANGED <<now, outDir, metaFile, pidFile, exitFile, logFile, gds, proc,
                 procPid, detached, exitStatus, others, poll, hist, changedAt, held>>

\* mkdir -p jobDir/output && echo '<metaJson>' > jobDir/meta.json; when mkdir
\* fails on the host nothing is written and the command exits nonzero
StartMkdir(ran, ok, resolves) ==
  /\ start.pc = "mkdir"
  /\ ~ran => ~ok /\ ~resolves
  /\ start' = [start EXCEPT !.pc = IF resolves THEN "spawn" ELSE "rejected"]
  /\ IF ok
       THEN /\ outDir' = TRUE
            /\ metaFile' = File([designName |-> "top", startTime |-> start.startTime,
                                 status |-> "running"])
       ELSE UNCHANGED <<outDir, metaFile>>
  /\ UNCHANGED <<call, sweep, parse, up, verify>>
  /\ UNCHANGED <<now, pidFile, exitFile, logFile, gds, proc, procPid, detached,
                 exitStatus, others, poll, hist>>
  /\ IF ok THEN Touch ELSE UNCHANGED <<changedAt, held>>

\* the bgCmd runs on the host and prints $!.  ok: the wrapper runs as process
\* p; otherwise the background job got process id p and ended before it ran
\* the wrapper (its <env> && prefix failed).  A connection that fails before
\* the command runs rejects the call.
StartSpawn(ran, ok, p) ==
  /\ start.pc = "spawn"
  /\ ~ran => ~ok
  /\ p \in Pids \ LivePids(proc, procPid, others)
  /\ start' = IF ran THEN [start EXCEPT !.pc = "spawned", !.out = <<p, " ">>]
                     ELSE [start EXCEPT !.pc = "rejected"]
  /\ IF ok
       THEN /\ proc' = "starting"
            /\ procPid' = p
            /\ detached' = SpawnDetached
       ELSE UNCHANGED <<proc, procPid, detached>>
  /\ UNCHANGED <<call, sweep, parse, up, verify>>
  /\ UNCHANGED <<now, outDir, metaFile, pidFile, exitFile, logFile, gds, exitStatus,
                 others, poll, hist>>
  /\ IF ok THEN Touch ELSE UNCHANGED <<changedAt, held>>

\* a variant whose spawn command stays in the foreground, with no timeout:
\* the call settles only when the job is over
StartSpawnSettleWaits(resolves) ==
  /\ start.pc = "spawned"
  /\ proc \in {"none", "exited", "killed"}
  /\ start' = IF resolves THEN [start EXCEPT !.pc = "pid", !.pid = Trim(start.out)]
                          ELSE [start EXCEPT !.pc = "rejected"]
  /\ UNCHANGED <<call, sweep, parse, up, verify>>
  /\ UNCHANGED <<now, outDir, metaFile, pidFile, exitFile, logFile, gds, proc, procPid,
                 detached, exitStatus, others, poll, hist, changedAt, held>>

\* the launching connection is closed: the call resolves and pid =
\* output.trim(), or its timeout fired first and the call rejects
StartSpawnSettle(resolves) ==
  /\ start.pc = "spawned"
  /\ start' = IF resolves THEN [start EXCEPT !.pc = "pid", !.pid = Trim(start.out)]
                          ELSE [start EXCEPT !.pc = "rejected"]
  /\ proc' = Hangup(proc, detached)
  /\ UNCHANGED <<call, sweep, parse, up, verify>>
  /\ UNCHANGED <<now, outDir, metaFile, pidFile, exitFile, logFile, gds, procPid,
                 detached, exitStatus, others, poll, hist>>
  /\ IF proc' # proc THEN Touch ELSE UNCHANGED <<changedAt, held>>

\* echo '<pid>' > jobDir/pid, which fails on the host without the directory;
\* then return { jobId, jobDir }
StartPid(ran, resolves) ==
  /\ start.pc = "pid"
  /\ ~ran => ~resolves
  /\ start' = [start EXCEPT !.pc = IF resolves THEN "returned" ELSE "rejected"]
  /\ IF ran /\ outDir
       THEN pidFile' = File(start.pid \o <<" ">>)
       ELSE UNCHANGED pidFile
  /\ UNCHANGED <<call, sweep, parse, up, verify>>
  /\ UNCHANGED <<now, outDir, metaFile, exitFile, logFile, gds, proc, procPid,
                 detached, exitStatus, others, poll, hist>>
  /\ IF ran /\ outDir THEN Touch ELSE UNCHANGED <<changedAt, held>>

(* -------------------------- checkJobStatus ---------------------------- *)
\* Math.round((Date.now() - startTime) / 1000)
ElapsedSeconds(t, startTime) == (2 * TickMs * (t - startTime) + 1000) \div 2000

\* processAlive = psCheck === "ALIVE"
ProcessAlive(psCheck) == psCheck = <<"ALIVE">>

\* a variant that forgets to strip the DONE: prefix
ExitCodeKeepsPrefix(exitCheck) == Trim(exitCheck)

\* exitCheck.replace("DONE:", "").trim()
ExitCode(exitCheck) == Trim(Tail(exitCheck))

\* `Exit code ${exitCode}.\n${lastLines}`
ExitDiagnostic(exitCode, output) ==
  [kind |-> "exit", code |-> exitCode, lines |-> LastN(SplitLines(output), LastLines)]

\* `Process died unexpectedly.\nLast log lines:\n${tailLog.trim()}`
DiedDiagnostic(tailLog) == [kind |-> "died", code |-> <<>>, lines |-> tailLog]

\* "Process died unexpectedly. No log available."
NoLogDiagnostic == [kind |-> "diedNoLog", code |-> <<>>, lines |-> <<>>]

\* output of a completed job: the whole log
FullLog(output) == [kind |-> "log", code |-> <<>>, lines |-> output]

\* no widget: the text results of running and failed
NoProps == [cells |-> <<>>, area |-> <<>>, wns |-> <<>>, duration |-> <<>>]

\* the JobStatus a call returns ("error": the call threw), with what the call
\* observed on its way
Finish(state, has, output, tailOk, psCheck) ==
  /\ hist' = Append(hist,
       [state |-> state, has |-> has, elapsedSeconds |-> poll.elapsedSeconds,
        output |-> output, stats |-> NoStats, hasGds |-> FALSE,
        designName |-> poll.designName, props |-> NoProps,
        exitCheck |-> poll.exitCheck, pidRaw |-> poll.pidRaw,
        psCheck |-> psCheck, tailOk |-> tailOk, held |-> held,
        diedAtStart |-> poll.diedAtStart,
        quietFrom |-> changedAt + 1])
  /\ poll' = IdlePoll
  /\ held' = FALSE

\* let startTime = Date.now(); cat meta.json: if (meta.startTime) startTime =
\* meta.startTime, a rejected command leaves the fallback; then elapsedSeconds
PollMeta(ok) ==
  /\ poll.pc = "idle"
  /\ start.pc \in {"mkdir", "spawn", "spawned", "pid", "returned"}
  /\ Len(hist) < MaxPolls
  /\ LET st == IF ok /\ MetaStartTime(metaFile) # 0
                 THEN MetaStartTime(metaFile) ELSE now
     IN  poll' = [IdlePoll EXCEPT !.pc = "exit", !.startTime = st,
                                  !.elapsedSeconds = ElapsedSeconds(now, st),
                                  !.diedAtStart = (proc = "killed" /\ ~exitFile.exists)]
  /\ held' = MarkerAbsentPidAlive(exitFile, pidFile, LivePids(proc, procPid, others))
  /\ UNCHANGED <<call, sweep, parse, up, verify>>
  /\ UNCHANGED <<now, outDir, metaFile, pidFile, exitFile, logFile, gds, proc,
                 procPid, detached, exitStatus, others, start, hist, changedAt>>

\* the exit-code marker check; a rejected command makes the call throw
PollExit(ok) ==
  /\ poll.pc = "exit"
  /\ IF ok
       THEN /\ poll' = [poll EXCEPT
                 !.exitCheck = ExitCheckOutput(exitFile),
                 !.pc = IF ExitCheckOutput(exitFile) = <<"RUNNING">> THEN "pid" ELSE "log"]
            /\ UNCHANGED <<hist, held>>
       ELSE Finish("error", {}, NoOutput, FALSE, poll.psCheck)
  /\ UNCHANGED <<call, sweep, parse, up, verify>>
  /\ UNCHANGED <<now, outDir, metaFile, pidFile, exitFile, logFile, gds, proc,
                 procPid, detached, exitStatus, others, start, changedAt>>

\* cat pid: an empty pidRaw or a rejected command leaves processAlive false
PollPid(ok) ==
  /\ poll.pc = "pid"
  /\ poll' = IF ok
       THEN [poll EXCEPT !.pidRaw = PidOutput(pidFile),
                         !.pc = IF PidOutput(pidFile) # <<>> THEN "probe" ELSE "tail"]
       ELSE [poll EXCEPT !.pc = "tail"]
  /\ UNCHANGED <<call, sweep, parse, up, verify>>
  /\ UNCHANGED <<now, outDir, metaFile, pidFile, exitFile, logFile, gds, proc,
                 procPid, detached, exitStatus, others, start, hist, changedAt, held>>

\* kill -0: alive returns { state: "running", elapsedSeconds }; dead or a
\* rejected command goes on to fail
PollProbe(ok) ==
  /\ poll.pc = "probe"
  /\ LET psCheck == KillCheckOutput(poll.pidRaw, LivePids(proc, procPid, others))
     IN  IF ok /\ ProcessAlive(psCheck)
           THEN Finish("running", {}, NoOutput, FALSE, psCheck)
           ELSE /\ poll' = [poll EXCEPT !.psCheck = IF ok THEN psCheck ELSE <<>>,
                                        !.pc = "tail"]
                /\ UNCHANGED <<hist, held>>
  /\ UNCHANGED <<call, sweep, parse, up, verify>>
  /\ UNCHANGED <<now, outDir, metaFile, pidFile, exitFile, logFile, gds, proc,
                 procPid, detached, exitStatus, others, start, changedAt>>

\* a variant that launches the command again when it finds the job dead
PollTailRespawns(ok) ==
  /\ poll.pc = "tail"
  /\ IF ok
       THEN Finish("failed", {"output"}, DiedDiagnostic(TailOutput(logFile)),
                   TRUE, poll.psCheck)
       ELSE Finish("failed", {"output"}, NoLogDiagnostic, FALSE, poll.psCheck)
  /\ proc' = IF proc = "killed" THEN "starting" ELSE proc
  /\ UNCHANGED <<call, sweep, parse, up, verify>>
  /\ UNCHANGED <<now, outDir, metaFile, pidFile, exitFile, logFile, gds,
                 procPid, detached, exitStatus, others, start, changedAt>>

\* tail -20 output.log, and the failed result with or without the log tail
PollTail(ok) ==
  /\ poll.pc = "tail"
  /\ IF ok
       THEN Finish("failed", {"output"}, DiedDiagnostic(TailOutput(logFile)),
                   TRUE, poll.psCheck)
       ELSE Finish("failed", {"output"}, NoLogDiagnostic, FALSE, poll.psCheck)
  /\ UNCHANGED <<call, sweep, parse, up, verify>>
  /\ UNCHANGED <<now, outDir, metaFile, pidFile, exitFile, logFile, gds, proc,
                 procPid, detached, exitStatus, others, start, changedAt>>

\* cat output.log (a rejected command makes the call throw); a nonzero exit
\* code returns failed, exit code "0" parses the stats
PollLog(ok) ==
  /\ poll.pc = "log"
  /\ LET output == CatLogOutput(logFile)
         exitCode == ExitCode(poll.exitCheck)
     IN  IF ~ok THEN Finish("error", {}, NoOutput, FALSE, poll.psCheck)
         ELSE IF exitCode # <<"0">>
           THEN Finish("failed", {"output"}, ExitDiagnostic(exitCode, output),
                       FALSE, poll.psCheck)
           ELSE /\ poll' = [poll EXCEPT !.pc = "gds", !.output = FullLog(output),
                                        !.stats = parseDesignStats(output)]
                /\ UNCHANGED <<hist, held>>
  /\ UNCHANGED <<call, sweep, parse, up, verify>>
  /\ UNCHANGED <<now, outDir, metaFile, pidFile, exitFile, logFile, gds, proc,
                 procPid, detached, exitStatus, others, start, changedAt>>

\* a variant that records the completion in meta.json
PollGdsMarksMeta(ok) ==
  /\ poll.pc = "gds"
  /\ poll' = [poll EXCEPT !.pc = "display",
                          !.hasGds = ok /\ Len(Trim(FindGdsOutput(gds))) > 0]
  /\ metaFile' = [metaFile EXCEPT !.content.status = "completed"]
  /\ UNCHANGED <<call, sweep, parse, up, verify>>
  /\ UNCHANGED <<now, outDir, pidFile, exitFile, logFile, gds, proc,
                 procPid, detached, exitStatus, others, start, hist, changedAt, held>>

\* find output -name "*.gds": a rejected command yields hasGds false; then
\* return { state: "completed", elapsedSeconds, output, stats, hasGds }
PollGds(ok) ==
  /\ poll.pc = "gds"
  /\ poll' = [poll EXCEPT !.pc = "display",
                          !.hasGds = ok /\ Len(Trim(FindGdsOutput(gds))) > 0]
  /\ UNCHANGED <<call, sweep, parse, up, verify>>
  /\ UNCHANGED <<now, outDir, metaFile, pidFile, exitFile, logFile, gds, proc,
                 procPid, detached, exitStatus, others, start, hist, changedAt, held>>

(* --------------------------- get-job-status --------------------------- *)
\* stats.x || fallback: an absent field and an empty text are false alike
OrElse(stats, field, fallback) ==
  IF field \in DOMAIN stats /\ stats[field] # <<>> THEN stats[field] ELSE fallback

\* a variant without the fallback from cells to instances
DisplayPropsCellsOnly(stats, elapsedSeconds) ==
  [cells |-> OrElse(stats, "cells", <<"N/A">>),
   area |-> OrElse(stats, "area", <<"N/A">>),
   wns |-> OrElse(stats, "wns", <<"N/A">>),
   duration |-> OrElse(stats, "duration", <<ToString(elapsedSeconds), "s">>)]

\* the props of the widget get-job-status returns for a completed job
DisplayProps(stats, elapsedSeconds) ==
  [cells |-> OrElse(stats, "cells", OrElse(stats, "instances", <<"N/A">>)),
   area |-> OrElse(stats, "area", <<"N/A">>),
   wns |-> OrElse(stats, "wns", <<"N/A">>),
   duration |-> OrElse(stats, "duration", <<ToString(elapsedSeconds), "s">>)]

\* The tool awaits checkJobStatus and returns a text for running and failed;
\* for completed it reads meta.json once more for the design name to display
\* ("unknown" when the command is rejected or the name is missing) and
\* builds the props of its widget.
ToolDisplay(ok) ==
  /\ poll.pc = "display"
  /\ LET shown == [poll EXCEPT !.designName =
                     IF ok /\ metaFile.exists THEN metaFile.content.designName
                     ELSE "unknown"]
     IN  /\ hist' = Append(hist,
              [state |-> "completed", has |-> {"output", "stats", "hasGds"},
               elapsedSeconds |-> shown.elapsedSeconds, output |-> shown.output,
               stats |-> shown.stats, hasGds |-> shown.hasGds,
               designName |-> shown.designName,
               props |-> DisplayProps(shown.stats, shown.elapsedSeconds),
               exitCheck |-> shown.exitCheck, pidRaw |-> shown.pidRaw,
               psCheck |-> shown.psCheck, tailOk |-> FALSE, held |-> held,
               diedAtStart |-> shown.diedAtStart, quietFrom |-> changedAt + 1])
         /\ poll' = IdlePoll
         /\ held' = FALSE
  /\ UNCHANGED <<call, sweep, parse, up, verify>>
  /\ UNCHANGED <<now, outDir, metaFile, pidFile, exitFile, logFile, gds, proc,
                 procPid, detached, exitStatus, others, start, changedAt>>

(* --------------------------- specification ---------------------------- *)
startBackgroundJob ==
  \/ StartCall
  \/ \E ran, ok, resolves \in BOOLEAN : StartMkdir(ran, ok, resolves)
  \/ \E ran, ok \in BOOLEAN, p \in Pids : StartSpawn(ran, ok, p)
  \/ \E resolves \in BOOLEAN : StartSpawnSettle(resolves)
  \/ \E ran, resolves \in BOOLEAN : StartPid(ran, resolves)

checkJobStatus ==
  \/ \E ok \in BOOLEAN : PollMeta(ok)
  \/ \E ok \in BOOLEAN : PollExit(ok)
  \/ \E ok \in BOOLEAN : PollPid(ok)
  \/ \E ok \in BOOLEAN : PollProbe(ok)
  \/ \E ok \in BOOLEAN : PollTail(ok)
  \/ \E ok \in BOOLEAN : PollLog(ok)
  \/ \E ok \in BOOLEAN : PollGds(ok)
  \/ \E ok \in BOOLEAN : ToolDisplay(ok)

Wrapper ==
  \/ WrapperRun
  \/ CmdWrite
  \/ \E c \in ExitStatuses : CmdExit(c)
  \/ MarkerOpen
  \/ MarkerWrite

Host ==
  \/ Kill
  \/ \E p \in Pids : OtherStart(p)
  \/ \E p \in Pids : OtherExit(p)

Next == startBackgroundJob \/ checkJobStatus \/ Wrapper \/ Host

Spec == Init /\ [][Next]_vars

\* the launcher alone with the job and the host.  Each of its steps is a
\* runOnEC2 call with a timeout of 15 or 10 seconds, which settles; nothing
\* makes the launched command go on or end.
NextLaunch == startBackgroundJob \/ Wrapper \/ Host

SpecLaunch == Init /\ [][NextLaunch]_vars /\ WF_vars(startBackgroundJob)

\* the same with the clock running
NextClock == Next \/ Tick

SpecClock == Init /\ [][NextClock]_vars

(* ---------------------------- design-sweep ---------------------------- *)
\* The design-sweep tool uploads the source into sweepDir and launches one
\* job per (pdk, freq) pair of its two input lists, one startBackgroundJob
\* call after the other; a rejected command rejects the tool and ends the
\* loop.  All variant directories lie in the one sweepDir of the invocation.
PdkNames == {"sky130", "asap7"}
Frequencies == {100, 200}

\* the lists of at most n elements of S
ListsOf(S, n) == UNION {[1..k -> S] : k \in 0..n}

\* `${sweepDir}/${pdk}_${freq}mhz`
variantDir(pdk, freq) == <<pdk, freq>>

\* a directory that no job has used
FreshDir ==
  [metaWrites |-> 0, spawns |-> 0, pidWrites |-> 0,
   procs |-> <<>>,      \* the jobs spawned in the directory, in order
   pidOf |-> 0,         \* the job whose process id the pid file holds
   marker |-> NoFile]   \* exit_code

\* the pair the nested loops are at
SweepPdk == sweep.pdks[sweep.pi]
SweepFreq == sweep.frequencies[sweep.fi]
SweepDir == variantDir(SweepPdk, SweepFreq)

\* the tool is invoked with its two lists
SweepCall(pdks, frequencies) ==
  /\ sweep.pc = "idle"
  /\ sweep' = [pc |-> "upload", pdks |-> pdks, frequencies |-> frequencies,
               pi |-> 1, fi |-> 1, jobs |-> <<>>, polls |-> <<>>,
               dirs |-> [d \in PdkNames \X Frequencies |-> FreshDir]]
  /\ UNCHANGED <<job, call, parse, up, verify>>

\* the next pair of the loops, or the end of the tool
SweepAdvance(sw) ==
  IF sw.pi > Len(sw.pdks) \/ sw.frequencies = <<>> THEN [sw EXCEPT !.pc = "returned"]
  ELSE IF sw.fi > Len(sw.frequencies)
    THEN IF sw.pi = Len(sw.pdks) THEN [sw EXCEPT !.pc = "returned"]
         ELSE [sw EXCEPT !.pi = sw.pi + 1, !.fi = 1, !.pc = "mkdir"]
  ELSE [sw EXCEPT !.pc = "mkdir"]

\* uploadFile("input.v", verilog, sweepDir)
SweepUpload(resolves) ==
  /\ sweep.pc = "upload"
  /\ sweep' = IF resolves THEN SweepAdvance(sweep) ELSE [sweep EXCEPT !.pc = "rejected"]
  /\ UNCHANGED <<job, call, parse, up, verify>>

\* mkdir -p variantDir/output && echo '<metaJson>' > variantDir/meta.json
SweepMkdir(ran, resolves) ==
  /\ sweep.pc = "mkdir"
  /\ ~ran => ~resolves
  /\ sweep' = [sweep EXCEPT
       !.pc = IF resolves THEN "spawn" ELSE "rejected",
       !.dirs[SweepDir].metaWrites = IF ran THEN @ + 1 ELSE @]
  /\ UNCHANGED <<job, call, parse, up, verify>>

\* the bgCmd of the variant
SweepSpawn(ran, resolves) ==
  /\ sweep.pc = "spawn"
  /\ ~ran => ~resolves
  /\ sweep' = [sweep EXCEPT
       !.pc = IF resolves THEN "pid" ELSE "rejected",
       !.dirs[SweepDir].spawns = IF ran THEN @ + 1 ELSE @,
       !.dirs[SweepDir].procs =
          IF ran THEN Append(@, [st |-> "running", status |-> 0]) ELSE @]
  /\ UNCHANGED <<job, call, parse, up, verify>>

\* a variant that swallows the rejection of a start and goes on with the next
\* turn of the loops
SweepPidCarriesOn(ran, resolves) ==
  /\ sweep.pc = "pid"
  /\ ~ran => ~resolves
  /\ LET written == [sweep EXCEPT
                       !.dirs[SweepDir].pidWrites = IF ran THEN @ + 1 ELSE @,
                       !.dirs[SweepDir].pidOf =
                          IF ran THEN Len(sweep.dirs[SweepDir].procs) ELSE @]
     IN  sweep' = IF resolves
           THEN SweepAdvance([written EXCEPT !.jobs = Append(@, SweepDir),
                                             !.fi = @ + 1])
           ELSE SweepAdvance([written EXCEPT !.fi = @ + 1])
  /\ UNCHANGED <<job, call, parse, up, verify>>

\* echo '<pid>' > variantDir/pid; jobs.push({ pdk, freq, jobDir }) and the
\* next turn of the loops
SweepPid(ran, resolves) ==
  /\ sweep.pc = "pid"
  /\ ~ran => ~resolves
  /\ LET written == [sweep EXCEPT
                       !.dirs[SweepDir].pidWrites = IF ran THEN @ + 1 ELSE @,
                       !.dirs[SweepDir].pidOf =
                          IF ran THEN Len(sweep.dirs[SweepDir].procs) ELSE @]
     IN  sweep' = IF resolves
           THEN SweepAdvance([written EXCEPT !.jobs = Append(@, SweepDir),
                                             !.fi = @ + 1])
           ELSE [written EXCEPT !.pc = "rejected"]
  /\ UNCHANGED <<job, call, parse, up, verify>>

\* the command of job k in directory d ends with status c and its wrapper
\* writes the exit-code marker of the directory
SweepJobExit(d, k, c) ==
  /\ sweep.pc # "idle"
  /\ k \in 1..Len(sweep.dirs[d].procs)
  /\ sweep.dirs[d].procs[k].st = "running"
  /\ sweep' = [sweep EXCEPT
       !.dirs[d].procs[k] = [st |-> "exited", status |-> c],
       !.dirs[d].marker = File(<<CodeText(c), " ">>)]
  /\ UNCHANGED <<job, call, parse, up, verify>>

\* checkJobStatus on a variant directory the tool has returned, all its
\* commands delivered: the marker check and the exit code, else the probe of
\* the recorded process
SweepStatus(d) ==
  /\ sweep.pc = "returned"
  /\ Len(sweep.polls) < MaxPolls
  /\ sweep.dirs[d].spawns > 0
  /\ LET dir == sweep.dirs[d]
         exitCheck == ExitCheckOutput(dir.marker)
         alive == dir.pidOf # 0 /\ dir.procs[dir.pidOf].st = "running"
         state == IF exitCheck = <<"RUNNING">>
                    THEN IF alive THEN "running" ELSE "failed"
                  ELSE IF ExitCode(exitCheck) = <<"0">> THEN "completed" ELSE "failed"
     IN  sweep' = [sweep EXCEPT
           !.polls = Append(@, [dir |-> d, state |-> state, procs |-> dir.procs])]
  /\ UNCHANGED <<job, call, parse, up, verify>>

designSweep ==
  \/ \E pdks \in ListsOf(PdkNames, MaxList), frequencies \in ListsOf(Frequencies, MaxList) :
       SweepCall(pdks, frequencies)
  \/ \E resolves \in BOOLEAN : SweepUpload(resolves)
  \/ \E ran, resolves \in BOOLEAN : SweepMkdir(ran, resolves)
  \/ \E ran, resolves \in BOOLEAN : SweepSpawn(ran, resolves)
  \/ \E ran, resolves \in BOOLEAN : SweepPid(ran, resolves)

\* the jobs of the sweep and the polls of their directories
SweepJobs ==
  \/ \E d \in PdkNames \X Frequencies, k \in 1..(MaxList * MaxList), c \in ExitStatuses :
       SweepJobExit(d, k, c)
  \/ \E d \in PdkNames \X Frequencies : SweepStatus(d)

SpecSweep == Init /\ [][designSweep \/ SweepJobs]_vars

\* the tool alone, from its invocation to its return or rejection
SpecSweepTool == Init /\ [][designSweep]_vars

(* ------------------------------ runOnEC2 ------------------------------ *)
\* One call, event by event.  The promise is settled by the first resolve or
\* reject; later ones have no effect.  The handlers run one at a time, in the
\* order the events arrive.
Chunks == {"out", "err"}

\* a variant in which the last call of resolve or reject wins
SettleLastWins(c, outcome, value) ==
  [c EXCEPT !.promise = outcome, !.result = value]

\* resolve(value) / reject(reason) on a promise
Settle(c, outcome, value) ==
  IF c.promise = "pending" THEN [c EXCEPT !.promise = outcome, !.result = value]
  ELSE c

\* clearTimeout(timer)
ClearTimeout(c) == IF c.timer = "armed" THEN [c EXCEPT !.timer = "cleared"] ELSE c

\* conn.end(), which does nothing on a client that never connected
End(c) == IF c.conn = "new" THEN c ELSE [c EXCEPT !.conn = "ended"]

\* The environment of the process: SSH_PRIVATE_KEY_B64 and SSH_PRIVATE_KEY
\* (<<>>: unset or empty, which JavaScript takes as false alike) and the file
\* at SSH_KEY_PATH or the default path.
Base64 == [keyA |-> "a2V5QQ=="]
Envs ==
  [b64 : {<<>>, <<Base64.keyA>>}, raw : {<<>>, <<"keyB">>},
   file : {NoFile, File(<<"keyC">>)}]

\* Buffer.from(text, "base64").toString("utf-8")
Base64Decode(text) ==
  [i \in 1..Len(text) |-> IF text[i] = Base64.keyA THEN "keyA" ELSE "?"]

\* a variant that prefers the raw key to the encoded one
getSSHKeyRawFirst(env) ==
  IF env.raw # <<>> THEN [ok |-> TRUE, key |-> env.raw]
  ELSE IF env.b64 # <<>> THEN [ok |-> TRUE, key |-> Base64Decode(env.b64)]
  ELSE IF env.file.exists THEN [ok |-> TRUE, key |-> env.file.content]
  ELSE [ok |-> FALSE, key |-> <<>>]

\* the decoded SSH_PRIVATE_KEY_B64, else SSH_PRIVATE_KEY, else
\* readFileSync(keyPath), which throws when the file cannot be read
getSSHKey(env) ==
  IF env.b64 # <<>> THEN [ok |-> TRUE, key |-> Base64Decode(env.b64)]
  ELSE IF env.raw # <<>> THEN [ok |-> TRUE, key |-> env.raw]
  ELSE IF env.file.exists THEN [ok |-> TRUE, key |-> env.file.content]
  ELSE [ok |-> FALSE, key |-> <<>>]

\* the executor: the timer is set, the handlers are registered, and
\* conn.connect is called with privateKey: getSSHKey(); when the key cannot be
\* read getSSHKey throws, which rejects the promise before any connection is
\* attempted
Connect(env) ==
  /\ call.phase = "idle"
  /\ LET begun == [call EXCEPT !.phase = "started", !.timer = "armed", !.env = env]
         got == getSSHKey(env)
     IN  call' = IF got.ok
           THEN [begun EXCEPT !.conn = "connecting", !.key = got.key]
           ELSE Settle([begun EXCEPT !.error = "key"], "keyError", <<>>)
  /\ UNCHANGED <<job, sweep, parse, up, verify>>

\* conn.on("ready"): conn.exec(`${ZYPHAR_ENV} && ${cmd}`, callback)
OnReady ==
  /\ call.conn = "connecting"
  /\ call' = [call EXCEPT !.conn = "ready", !.stream = "requested"]
  /\ UNCHANGED <<job, sweep, parse, up, verify>>

\* the callback of conn.exec: with an error, clearTimeout, conn.end() and
\* reject(err); otherwise the stream is open and the command runs
OnExec(err) ==
  /\ call.stream = "requested"
  /\ ~err => call.conn = "ready"
  /\ call' = IF err
       THEN Settle(End(ClearTimeout([call EXCEPT !.stream = "refused",
                     !.error = IF @ = "none" THEN "exec" ELSE @])), "execError", <<>>)
       ELSE [call EXCEPT !.stream = "open", !.cmd = "running"]
  /\ UNCHANGED <<job, sweep, parse, up, verify>>

\* stream.on("data") and stream.stderr.on("data"): output += data; chunks
\* arrive until the stream closes
OnData(chunk) ==
  /\ call.stream = "open"
  /\ Len(call.output) < MaxChunks
  /\ call' = [call EXCEPT !.output = Append(@, chunk)]
  /\ UNCHANGED <<job, sweep, parse, up, verify>>

\* the remote command ends with exit status c
RemoteExit(c) ==
  /\ call.cmd = "running"
  /\ call' = [call EXCEPT !.cmd = "exited", !.status = c]
  /\ UNCHANGED <<job, sweep, parse, up, verify>>

\* a variant that rejects when the command ended with a nonzero status
OnCloseChecksStatus ==
  /\ call.stream = "open"
  /\ call.cmd = "exited" \/ call.conn # "ready"
  /\ call' = IF call.cmd = "exited" /\ call.status # 0
       THEN Settle(End(ClearTimeout([call EXCEPT !.stream = "closed"])), "execError", <<>>)
       ELSE Settle(End(ClearTimeout([call EXCEPT !.stream = "closed"])),
                   "resolved", call.output)
  /\ UNCHANGED <<job, sweep, parse, up, verify>>

\* stream.on("close"), after the command ended or the connection went away:
\* clearTimeout, conn.end() and resolve(output)
OnClose ==
  /\ call.stream = "open"
  /\ call.cmd = "exited" \/ call.conn # "ready"
  /\ call' = Settle(End(ClearTimeout([call EXCEPT !.stream = "closed"])),
                    "resolved", call.output)
  /\ UNCHANGED <<job, sweep, parse, up, verify>>

\* a variant that clears the timer and forgets to reject
OnErrorKeepsPending ==
  /\ call.conn \in {"connecting", "ready"}
  /\ call' = ClearTimeout([call EXCEPT !.conn = "failed",
                             !.error = IF @ = "none" THEN "conn" ELSE @])
  /\ UNCHANGED <<job, sweep, parse, up, verify>>

\* conn.on("error"): clearTimeout and reject("SSH connection failed: ...")
OnError ==
  /\ call.conn \in {"connecting", "ready"}
  /\ call' = Settle(ClearTimeout([call EXCEPT !.conn = "failed",
                             !.error = IF @ = "none" THEN "conn" ELSE @]),
                    "connError", <<>>)
  /\ UNCHANGED <<job, sweep, parse, up, verify>>

\* the connection closes without an error event; no handler is registered
ConnDrop ==
  /\ call.conn \in {"connecting", "ready"}
  /\ call' = [call EXCEPT !.conn = "dropped"]
  /\ UNCHANGED <<job, sweep, parse, up, verify>>

\* a variant that ends the connection and forgets to reject
OnTimeoutKeepsPending ==
  /\ call.timer = "armed"
  /\ call' = End([call EXCEPT !.timer = "fired"])
  /\ UNCHANGED <<job, sweep, parse, up, verify>>

\* the timer set for timeoutMs fires: conn.end() and reject("Command timed
\* out after ...")
OnTimeout ==
  /\ call.timer = "armed"
  /\ call' = Settle(End([call EXCEPT !.timer = "fired"]), "timeout", <<>>)
  /\ UNCHANGED <<job, sweep, parse, up, verify>>

runOnEC2 ==
  \/ \E env \in Envs : Connect(env)
  \/ OnReady
  \/ \E err \in BOOLEAN : OnExec(err)
  \/ \E chunk \in Chunks : OnData(chunk)
  \/ \E c \in ExitStatuses : RemoteExit(c)
  \/ OnClose
  \/ OnError
  \/ ConnDrop
  \/ OnTimeout

SpecCall == Init /\ [][runOnEC2]_vars

\* a timer that stays set fires: the event loop runs the callback of every
\* timer that is not cleared
SpecCallFair == SpecCall /\ WF_vars(OnTimeout)

(* ------------------- the Stats Parser on any log text ------------------ *)
\* lines a log may hold: fields with and without surrounding blanks, a prefix
\* inside a line, a field without a value, the completion marker inside a
\* line, and lines that match nothing
SampleLines ==
  { <<"Cells:", " ", "12">>, <<" ", "Cells:", "34", " ">>, <<"x", "Cells:", "5">>,
    <<"Area:">>, <<"Area:", " ", "77", " ">>, <<"WNS:", " ", "-0.05">>,
    <<"Instances:", "9">>, <<"Duration:", " ", "12.3s">>,
    <<"ok", " ", "Flow completed", "!">>, <<"noise">> }

\* the elapsed seconds of the completed status
SampleElapsed == {0, 2}

\* checkJobStatus of a job with exit code "0" and this log: stats =
\* parseDesignStats(output)
ParseLog(output, elapsedSeconds) ==
  /\ parse.pc = "idle"
  /\ parse' = [pc |-> "parsed", output |-> output, elapsedSeconds |-> elapsedSeconds,
               stats |-> parseDesignStats(output)]
  /\ UNCHANGED <<job, call, sweep, up, verify>>

\* get-job-status builds the props from status.stats || {}
ShowStats ==
  /\ parse.pc = "parsed"
  /\ parse' = [pc |-> "shown", output |-> parse.output,
               elapsedSeconds |-> parse.elapsedSeconds, stats |-> parse.stats,
               props |-> DisplayProps(parse.stats, parse.elapsedSeconds)]
  /\ UNCHANGED <<job, call, sweep, up, verify>>

NextParse ==
  \/ \E output \in ListsOf(SampleLines, MaxLogLines), e \in SampleElapsed :
       ParseLog(output, e)
  \/ ShowStats

SpecParse == Init /\ [][NextParse]_vars

(* ----------------------------- uploadFile ----------------------------- *)
\* One call with a given dir, event by event: the mkdir command through
\* runOnEC2, then a connection of its own for the SFTP write, with a timer of
\* 30 seconds.  The promise is settled by the first resolve or reject.
Contents == {<<"module", "top">>, <<"$", "'", "end">>, <<>>}

\* `${jobDir}/${filename}`
FilePath(dir, filename) == <<dir, "/", filename>>

\* uploadFile(filename, content, dir) is called; the directory may be there
UploadCall(dirThere, content) ==
  /\ up.pc = "idle"
  /\ up' = [pc |-> "mkdir", dir |-> dirThere, mkdir |-> "none", file |-> NoFile,
            content |-> content, conn |-> "new", timer |-> "none", sftp |-> "none",
            write |-> "none", writes |-> 0, promise |-> "pending", result |-> <<>>,
            error |-> "none"]
  /\ UNCHANGED <<job, call, sweep, parse, verify>>

\* await runOnEC2(`mkdir -p ${jobDir}`): the command runs on the host or the
\* connection fails first; the call resolves whatever the exit status of
\* mkdir, and a rejection rejects uploadFile
UploadMkdir(ran, ok, resolves) ==
  /\ up.pc = "mkdir"
  /\ ~ran => ~ok /\ ~resolves
  /\ LET made == [up EXCEPT !.dir = @ \/ ok,
                            !.mkdir = IF ok THEN "made" ELSE IF ran THEN "failed" ELSE "none"]
     IN  up' = IF resolves THEN [made EXCEPT !.pc = "connect"]
               ELSE Settle([made EXCEPT !.pc = "sftp", !.error = "mkdir"],
                           "mkdirError", <<>>)
  /\ UNCHANGED <<job, call, sweep, parse, verify>>

\* the executor of the SFTP promise: the timer is set, the handlers are
\* registered and conn.connect is called with privateKey: getSSHKey()
UploadConnect(env) ==
  /\ up.pc = "connect"
  /\ LET begun == [up EXCEPT !.pc = "sftp", !.timer = "armed"]
     IN  up' = IF getSSHKey(env).ok
           THEN [begun EXCEPT !.conn = "connecting"]
           ELSE Settle([begun EXCEPT !.error = "key"], "keyError", <<>>)
  /\ UNCHANGED <<job, call, sweep, parse, verify>>

\* conn.on("ready"): conn.sftp(callback)
UploadReady ==
  /\ up.pc = "sftp"
  /\ up.conn = "connecting"
  /\ up' = [up EXCEPT !.conn = "ready", !.sftp = "requested"]
  /\ UNCHANGED <<job, call, sweep, parse, verify>>

\* the callback of conn.sftp: with an error, clearTimeout, conn.end() and
\* reject(err); otherwise sftp.writeFile(filePath, content, callback)
UploadSftp(err) ==
  /\ up.pc = "sftp"
  /\ up.sftp = "requested"
  /\ ~err => up.conn = "ready"
  /\ up' = IF err
       THEN Settle(End(ClearTimeout([up EXCEPT !.sftp = "refused",
                     !.error = IF @ = "none" THEN "sftp" ELSE @])), "sftpError", <<>>)
       ELSE [up EXCEPT !.sftp = "open", !.write = "started", !.writes = @ + 1]
  /\ UNCHANGED <<job, call, sweep, parse, verify>>

\* a variant that resolves whatever the write reported
UploadWrittenIgnoresError(err) ==
  /\ up.pc = "sftp"
  /\ up.write = "started"
  /\ ~err => up.dir
  /\ up' = Settle(End(ClearTimeout([up EXCEPT
                    !.write = IF err THEN "failed" ELSE "done",
                    !.file = IF err THEN @ ELSE File(up.content)])),
                  "resolved", FilePath("dir", "input.v"))
  /\ UNCHANGED <<job, call, sweep, parse, verify>>

\* the callback of sftp.writeFile: clearTimeout, conn.end(), then reject(err)
\* or resolve(filePath).  The write succeeds only into an existing directory.
UploadWritten(err) ==
  /\ up.pc = "sftp"
  /\ up.write = "started"
  /\ ~err => up.dir
  /\ up' = IF err
       THEN Settle(End(ClearTimeout([up EXCEPT !.write = "failed",
                     !.error = IF @ = "none" THEN "write" ELSE @])), "writeError", <<>>)
       ELSE Settle(End(ClearTimeout([up EXCEPT !.write = "done",
                     !.file = File(up.content)])),
                   "resolved", FilePath("dir", "input.v"))
  /\ UNCHANGED <<job, call, sweep, parse, verify>>

\* conn.on("error"): clearTimeout and reject("SFTP connection failed: ...")
UploadError ==
  /\ up.pc = "sftp"
  /\ up.conn \in {"connecting", "ready"}
  /\ up' = Settle(ClearTimeout([up EXCEPT !.conn = "failed",
                     !.error = IF @ = "none" THEN "conn" ELSE @]),
                  "connError", <<>>)
  /\ UNCHANGED <<job, call, sweep, parse, verify>>

\* the 30 second timer fires: conn.end() and reject("SFTP upload timed out")
UploadTimeout ==
  /\ up.pc = "sftp"
  /\ up.timer = "armed"
  /\ up' = Settle(End([up EXCEPT !.timer = "fired"]), "timeout", <<>>)
  /\ UNCHANGED <<job, call, sweep, parse, verify>>

uploadFile ==
  \/ \E dirThere \in BOOLEAN, content \in Contents : UploadCall(dirThere, content)
  \/ \E ran, ok, resolves \in BOOLEAN : UploadMkdir(ran, ok, resolves)
  \/ \E env \in Envs : UploadConnect(env)
  \/ UploadReady
  \/ \E err \in BOOLEAN : UploadSftp(err)
  \/ \E err \in BOOLEAN : UploadWritten(err)
  \/ UploadError
  \/ UploadTimeout

SpecUpload == Init /\ [][uploadFile]_vars

(* ------------------- check-drc and verify-equivalence -------------------- *)

\* A tool output is a sequence of tokens: a digit, a blank (" ") or a word.
\* The regular expressions are unanchored and ignore case, so a word token
\* stands for any text that holds it ("violation" for "violations" as well).
Digits == {"0", "1"}
DrcTokens == {"0", "1", " ", "violation", "error", "DRC", "clean", "x"}
EquivTokens == {"PASS", "FAIL", "not", " ", "equivalent", "mismatch", "x"}

\* the index behind the blanks that begin at i (\s*)
RECURSIVE SkipBlanks(_, _)
SkipBlanks(output, i) ==
  IF i <= Len(output) /\ output[i] = " " THEN SkipBlanks(output, i + 1) ELSE i

\* the index behind the digits that begin at i (\d+, greedy)
RECURSIVE SkipDigits(_, _)
SkipDigits(output, i) ==
  IF i <= Len(output) /\ output[i] \in Digits THEN SkipDigits(output, i + 1) ELSE i

\* \s*(?:w1|w2|...) matches at i
BlanksThenWord(output, i, words) ==
  LET k == SkipBlanks(output, i) IN k <= Len(output) /\ output[k] \in words

\* parseInt of a run of digits
RECURSIVE ParseInt(_)
ParseInt(digits) ==
  IF digits = <<>> THEN 0
  ELSE 10 * ParseInt(SubSeq(digits, 1, Len(digits) - 1))
       + (IF digits[Len(digits)] = "1" THEN 1 ELSE 0)

\* /(\d+)\s*(?:violation|error|issue)/i matches with its first digit at i: the
\* digits from i on are taken to the end of their run; giving some of them
\* back leaves a digit where a blank or a word is required
ViolationMatchAt(output, i) ==
  /\ output[i] \in Digits
  /\ BlanksThenWord(output, SkipDigits(output, i), {"violation", "error", "issue"})

\* output.match(...): the leftmost match and its group 1, or no match
violationMatch(output) ==
  LET starts == {i \in 1..Len(output) : ViolationMatchAt(output, i)}
  IN  IF starts = {} THEN [found |-> FALSE, group |-> <<>>]
      ELSE LET first == CHOOSE i \in starts : \A j \in starts : i <= j
           IN  [found |-> TRUE,
                group |-> SubSeq(output, first, SkipDigits(output, first) - 1)]

\* violationMatch ? parseInt(violationMatch[1]) : 0
violationCount(output) ==
  IF violationMatch(output).found THEN ParseInt(violationMatch(output).group) ELSE 0

\* /DRC\s*(?:clean|CLEAN|passed|PASSED)|0\s*violation/i.test(output)
clean(output) ==
  \E i \in 1..Len(output) :
    \/ output[i] = "DRC" /\ BlanksThenWord(output, i + 1, {"clean", "passed"})
    \/ output[i] = "0" /\ BlanksThenWord(output, i + 1, {"violation"})

\* meta.json as check-drc reads it: designName and pdk, <<>> when the key is
\* missing (also the '{}' of a file that cannot be read)
Metas ==
  { [designName |-> <<>>, pdk |-> <<>>],
    [designName |-> <<"top", " (demo)">>, pdk |-> <<"asap7">>] }

\* (meta.designName || "unknown").replace(/ \(demo\)$/, ""), "unknown" when
\* the read of meta.json was rejected
TopOf(meta, ok) ==
  IF ~ok \/ meta.designName = <<>> THEN <<"unknown">>
  ELSE IF meta.designName[Len(meta.designName)] = " (demo)"
    THEN SubSeq(meta.designName, 1, Len(meta.designName) - 1)
  ELSE meta.designName

\* meta.pdk || "sky130", "sky130" when the read of meta.json was rejected
PdkOf(meta, ok) == IF ~ok \/ meta.pdk = <<>> THEN <<"sky130">> ELSE meta.pdk

NoReport ==
  [passed |-> FALSE, violationCount |-> 0, designName |-> <<>>, pdk |-> <<>>,
   details |-> <<>>]

\* check-drc: the search for the GDS file (rejected, empty or found), the two
\* reads of meta.json, whose failures are ignored, the run of the DRC tool and
\* the report built from its output
checkDrc(findOk, g, meta, topOk, pdkOk, drcOk, output) ==
  /\ verify.pc = "idle"
  /\ LET gdsFile == Trim(FindGdsOutput(g))
         reached == findOk /\ gdsFile # <<>>
     IN  /\ ~findOk => ~g
         /\ ~reached => meta.designName = <<>> /\ topOk /\ pdkOk /\ drcOk
         /\ ~(reached /\ drcOk) => output = <<>>
         /\ verify' =
              IF ~findOk \/ (reached /\ ~drcOk)
                THEN [pc |-> "drc", result |-> "rejected", output |-> <<>>,
                      props |-> NoReport]
              ELSE IF gdsFile = <<>>
                THEN [pc |-> "drc", result |-> "text", output |-> <<>>,
                      props |-> NoReport]
              ELSE [pc |-> "drc", result |-> "widget", output |-> output,
                    props |-> [passed |-> clean(output),
                               violationCount |-> violationCount(output),
                               designName |-> TopOf(meta, topOk),
                               pdk |-> PdkOf(meta, pdkOk),
                               details |-> LastN(output, DetailLength)]]
  /\ UNCHANGED <<job, call, sweep, parse, up>>

\* /PASS|equivalent|proven/i.test(output)
passed(output) ==
  \E i \in 1..Len(output) : output[i] \in {"PASS", "equivalent", "proven"}

\* /FAIL|mismatch|not equivalent/i.test(output)
failed(output) ==
  \E i \in 1..Len(output) :
    \/ output[i] \in {"FAIL", "mismatch"}
    \/ /\ i + 2 <= Len(output)
       /\ output[i] = "not" /\ output[i + 1] = " " /\ output[i + 2] = "equivalent"

\* passed ? "PASS ..." : failed ? "FAIL ..." : "INCONCLUSIVE"
status(output) ==
  IF passed(output) THEN "PASS" ELSE IF failed(output) THEN "FAIL" ELSE "INCONCLUSIVE"

\* the awaits of verify-equivalence that can reject
EquivSteps == {"mkdir", "rtl", "netlist", "equiv"}

\* verify-equivalence: the job directory, the two uploads and the run of the
\* equivalence check, any of which may reject, and the text built from its
\* output
verifyEquivalence(rejects, output) ==
  /\ verify.pc = "idle"
  /\ rejects # "none" => output = <<>>
  /\ verify' =
       IF rejects # "none"
         THEN [pc |-> "equiv", result |-> "rejected", at |-> rejects,
               output |-> <<>>, status |-> "none"]
         ELSE [pc |-> "equiv", result |-> "text", at |-> "none",
               output |-> output, status |-> status(output)]
  /\ UNCHANGED <<job, call, sweep, parse, up>>

NextVerify ==
  \/ \E findOk, g, topOk, pdkOk, drcOk \in BOOLEAN, meta \in Metas,
        output \in ListsOf(DrcTokens, MaxOut) :
       checkDrc(findOk, g, meta, topOk, pdkOk, drcOk, output)
  \/ \E rejects \in EquivSteps \cup {"none"}, output \in ListsOf(EquivTokens, MaxOut) :
       verifyEquivalence(rejects, output)

SpecVerify == Init /\ [][NextVerify]_vars

(* ------------------------------ claims -------------------------------- *)
Terminal == {"completed", "failed"}

\* the calls that returned a JobStatus (the others threw)
Returned == {i \in 1..Len(hist) : hist[i].state # "error"}

\* C1: once a status() call has returned completed or failed, no later
\* status() call on the job directory returns running.
C1_NeverRunningAfterTerminal ==
  \A i, j \in Returned :
    i < j /\ hist[i].state \in Terminal => hist[j].state # "running"

\* C2: a status() call made while the exit-code marker is absent and the
\* process recorded in the pid file is alive returns running.
C2_RunningWhileAlive ==
  \A i \in Returned : hist[i].held => hist[i].state = "running"

\* lines is the last TailLines lines of the log (the whole log when it is
\* shorter), or the fallback text when there is no log; the log of a dead
\* job no longer grows
IsLogTail(lines) ==
  IF logFile.exists
    THEN /\ Len(lines) = IF Len(logFile.content) < TailLines
                           THEN Len(logFile.content) ELSE TailLines
         /\ \A k \in 1..Len(lines) :
              lines[k] = logFile.content[Len(logFile.content) - Len(lines) + k]
    ELSE lines = << <<"No log file">> >>

\* the calls that found the marker absent and the recorded pid dead
FoundDead ==
  {i \in 1..Len(hist) : hist[i].exitCheck = <<"RUNNING">> /\ hist[i].psCheck = <<"DEAD">>}

C4_ExitCodeMapping ==
  \A i \in Returned :
    \A c \in {CodeText(n) : n \in ExitStatuses \cup {1}} :
      hist[i].exitCheck = <<"DONE:", c>> =>
        /\ exitFile.content = <<c, " ">>
        /\ IF c = "0"
             THEN hist[i].state = "completed"
             ELSE /\ hist[i].state = "failed"
                  /\ hist[i].output.kind = "exit"
                  /\ hist[i].output.code = <<c>>

C4_Witness ==
  /\ \E i \in Returned :
       /\ hist[i].exitCheck = <<"DONE:", "7">>
       /\ hist[i].state = "failed"
       /\ hist[i].output.code = <<"7">>
  /\ exitStatus = 7

\* C5: a job whose process was killed without writing the marker is reported
\* failed by every status() poll made after the death.
C5_KilledReportedFailed ==
  \A i \in Returned : hist[i].diedAtStart => hist[i].state = "failed"

\* C6: once a status() call has returned completed, or failed, every later
\* call returns the same state.
C6_TerminalNeverReverts ==
  \A i, j \in Returned :
    i < j /\ hist[i].state \in Terminal => hist[j].state = hist[i].state

\* C7: when start() has returned successfully, the wrapped command has been
\* spawned and the pid file holds its process id.
C7_ReturnedMeansLaunched ==
  start.pc = "returned" =>
    /\ proc # "none"
    /\ pidFile.exists
    /\ Trim(pidFile.content) = <<procPid>>

\* C8: no step of start() or of a status() poll, resolving or rejected, and
\* no closing of a connection changes the launched job process.
C8_ChannelsLeaveJobAlone ==
  [][(start' # start \/ poll' # poll \/ hist' # hist) /\ proc # "none"
       => proc' = proc /\ procPid' = procPid]_vars

C8_Witness ==
  /\ start.pc = "rejected"
  /\ proc = "running"
  /\ \E i \in 1..Len(hist) : hist[i].state = "error"

\* C9: a step of a status() call or of get-job-status leaves the job's files,
\* its output directory and the processes on the host unchanged.
C9_PollingReadOnly ==
  [][poll' # poll \/ hist' # hist => UNCHANGED remote]_vars

C9_Witness ==
  /\ Len(hist) = MaxPolls
  /\ \E i, j \in Returned : hist[i].state = "running" /\ hist[j].state = "completed"

\* C10: two status() calls with no change of the remote job state between
\* them return the same state and the same stats.
C10_SameResultWhenUnchanged ==
  \A i, j \in Returned :
    i < j /\ i >= hist[j].quietFrom =>
      hist[j].state = hist[i].state /\ hist[j].stats = hist[i].stats

\* C11: a status() call that finds the exit-code marker absent and gets no
\* verdict on the process (pid record unreadable or empty, or the liveness
\* probe rejected) returns running.
C11_InconclusiveIsRunning ==
  \A i \in Returned :
    hist[i].exitCheck = <<"RUNNING">> /\ hist[i].psCheck = <<>>
      => hist[i].state = "running"

\* a status() call of which a command was certainly rejected: the log tail
\* was not delivered, the pid was read and the probe gave no verdict, or the
\* layout file exists and the search for it found nothing
RejectedCommand(i) ==
  \/ hist[i].output = NoLogDiagnostic
  \/ hist[i].exitCheck = <<"RUNNING">> /\ hist[i].pidRaw # <<>> /\ hist[i].psCheck = <<>>
  \/ hist[i].state = "completed" /\ gds /\ ~hist[i].hasGds

\* C12: a status() call one of whose remote commands was rejected (connection
\* error or timeout) throws: it returns no job state.
C12_FailuresPropagate ==
  \A i \in 1..Len(hist) : RejectedCommand(i) => hist[i].state = "error"

\* C13: whenever the exit-code marker exists, the command has terminated and
\* the marker holds its numeric exit status.
C13_MarkerMeansTerminated ==
  exitFile.exists =>
    /\ proc \in {"marking", "exited", "killed"}
    /\ exitFile.content = <<CodeText(exitStatus), " ">>

\* C14: start() goes on to the spawn command only with the job directory, its
\* output directory and meta.json in place, and the pid file is written only
\* after the spawn command has run.
C14_StartOrdering ==
  /\ start.pc \in {"spawn", "spawned", "pid", "returned"} \/ proc # "none"
       => outDir /\ metaFile.exists
  /\ pidFile.exists => start.out # <<>>

\* C15: meta.json and the pid file of a job directory are each written at
\* most once, whatever tools are invoked.
C15_RecordsWrittenOnce ==
  sweep.pc # "idle" =>
    \A d \in DOMAIN sweep.dirs :
      sweep.dirs[d].metaWrites <= 1 /\ sweep.dirs[d].pidWrites <= 1

\* C16: any two jobs launched, the variants of one design-sweep included,
\* have distinct working directories.
C16_DistinctJobDirs ==
  sweep.pc # "idle" =>
    /\ \A i, j \in 1..Len(sweep.jobs) : i # j => sweep.jobs[i] # sweep.jobs[j]
    /\ \A d \in DOMAIN sweep.dirs : sweep.dirs[d].spawns <= 1

\* C17: when the stream of a runOnEC2 call closes with the call unsettled
\* (before the timeout and any connection error), the call resolves with all
\* the stdout and stderr text received, whatever the exit status of the
\* command; no call is rejected because of an exit status.
C17_ExitStatusNeverRaises ==
  [][/\ call.stream = "open" /\ call'.stream = "closed" /\ call.promise = "pending"
          => call'.promise = "resolved" /\ call'.result = call.output
     /\ call.stream = "open" /\ call'.stream = "closed" /\ call.promise # "pending"
          => call'.promise = call.promise]_vars

C17_Witness ==
  /\ call.promise = "resolved"
  /\ call.cmd = "exited" /\ call.status # 0
  /\ call.result = <<"out", "err">>

\* C18: when the timer of a runOnEC2 call fires with the stream not closed
\* and no connection error so far, the call is rejected with the timeout
\* error and the connection ended; a call whose timer has fired is never
\* resolved.
C18_TimeoutRejects ==
  [][/\ call.timer = "armed" /\ call'.timer = "fired"
          /\ call.stream # "closed" /\ call.error = "none"
          => call'.promise = "timeout" /\ call'.conn = "ended"
     /\ call'.timer = "fired" => call'.promise # "resolved"]_vars

C18_Witness ==
  /\ call.promise = "timeout"
  /\ call.stream = "closed"
  /\ call.output # <<>>

\* C19: every runOnEC2 call that has begun is eventually resolved or
\* rejected.
C19_CallSettles == (call.phase = "started") ~> (call.promise # "pending")

C19_Witness ==
  /\ call.promise = "timeout"
  /\ call.stream = "none"
  /\ call.conn = "ended"

\* C20: a start() call under way eventually returns or is rejected, whether
\* or not the launched command ever terminates.
C20_StartSettles ==
  (start.pc # "idle") ~> (start.pc \in {"returned", "rejected"})

C20_Witness ==
  /\ start.pc = "returned"
  /\ proc = "running"
  /\ ~exitFile.exists

\* C21: the key of a connection is the decoded SSH_PRIVATE_KEY_B64 when that
\* is set, else SSH_PRIVATE_KEY when that is set, else the content of the key
\* file; with none of them the call is rejected with the key error and no
\* connection is attempted.
C21_KeyResolutionOrder ==
  call.phase = "started" =>
    IF call.env.b64 # <<>>
      THEN call.key = <<"keyA">> /\ call.error # "key"
    ELSE IF call.env.raw # <<>>
      THEN call.key = call.env.raw /\ call.error # "key"
    ELSE IF call.env.file.exists
      THEN call.key = call.env.file.content /\ call.error # "key"
    ELSE /\ call.promise = "keyError"
         /\ call.conn = "new"
         /\ call.stream = "none"

C21_Witness ==
  /\ call.env.b64 # <<>> /\ call.env.raw # <<>> /\ call.env.file.exists
  /\ call.key = <<"keyA">>
  /\ call.promise = "resolved"

\* the prefix of each field of the Stats Parser
FieldPrefix ==
  [cells |-> "Cells:", area |-> "Area:", wns |-> "WNS:",
   instances |-> "Instances:", duration |-> "Duration:"]

\* C22: the parsed stats hold a field exactly when some trimmed line of the
\* log starts with the field's prefix, with the trimmed rest of such a line as
\* value, and hold status "completed" exactly when some line contains the
\* completion marker; nothing else is in the result.
C22_SparseMapping ==
  parse.pc # "idle" =>
    LET lines == parse.output
        starts(i, f) == Trim(lines[i]) # <<>> /\ Head(Trim(lines[i])) = FieldPrefix[f]
        marked(i) == \E k \in 1..Len(lines[i]) : lines[i][k] = "Flow completed"
    IN  /\ DOMAIN parse.stats \subseteq DOMAIN FieldPrefix \cup {"status"}
        /\ \A f \in DOMAIN FieldPrefix :
             /\ f \in DOMAIN parse.stats <=> \E i \in 1..Len(lines) : starts(i, f)
             /\ f \in DOMAIN parse.stats =>
                  \E i \in 1..Len(lines) :
                    starts(i, f) /\ parse.stats[f] = Trim(Tail(Trim(lines[i])))
        /\ "status" \in DOMAIN parse.stats <=> \E i \in 1..Len(lines) : marked(i)
        /\ "status" \in DOMAIN parse.stats => parse.stats.status = <<"completed">>

C22_Witness ==
  /\ parse.pc = "parsed"
  /\ parse.output = << <<" ", "Cells:", "34", " ">>, <<"ok", " ", "Flow completed", "!">> >>
  /\ DOMAIN parse.stats = {"cells", "status"}
  /\ parse.stats.cells = <<"34">>

\* C25: for a completed job get-job-status always returns its widget, and a
\* field absent from the stats is shown as "N/A" (area, wns), as the instances
\* value or else "N/A" (cells), as the elapsed seconds (duration).
C25_MissingStatsShown ==
  /\ parse.pc = "parsed" => ENABLED ShowStats
  /\ parse.pc = "shown" =>
       LET absent(f) == f \notin DOMAIN parse.stats
       IN  /\ absent("area") => parse.props.area = <<"N/A">>
           /\ absent("wns") => parse.props.wns = <<"N/A">>
           /\ absent("cells") /\ absent("instances") => parse.props.cells = <<"N/A">>
           /\ absent("cells") /\ ~absent("instances")
                => parse.props.cells = parse.stats.instances
           /\ absent("duration")
                => parse.props.duration = <<ToString(parse.elapsedSeconds), "s">>

C25_Witness ==
  /\ parse.pc = "shown"
  /\ DOMAIN parse.stats = {"instances"}
  /\ parse.props.cells = <<"9">>
  /\ parse.props.area = <<"N/A">>
  /\ parse.props.duration = <<"2", "s">>

\* C23: a status() result has stats and the artifact flag exactly when its
\* state is completed; then the stats are the Stats Parser's result on the
\* whole log, and the flag is what the search for a layout file finds, false
\* when the search command is rejected.
C23_StatsIffCompleted ==
  /\ \A i \in Returned :
       /\ "stats" \in hist[i].has <=> hist[i].state = "completed"
       /\ "hasGds" \in hist[i].has <=> hist[i].state = "completed"
       /\ hist[i].state = "completed" =>
            /\ hist[i].output = FullLog(CatLogOutput(logFile))
            /\ hist[i].stats = parseDesignStats(CatLogOutput(logFile))
            /\ hist[i].hasGds => gds
  /\ poll.pc = "gds" =>
       /\ ENABLED (PollGds(TRUE) /\ poll'.hasGds = gds)
       /\ ENABLED (PollGds(FALSE) /\ poll'.hasGds = FALSE /\ poll'.pc = "display")

C23_Witness ==
  \E i, j \in Returned :
    /\ hist[i].state = "completed" /\ hist[i].hasGds
    /\ DOMAIN hist[i].stats = {"cells", "wns", "area", "status"}
    /\ hist[j].state = "failed" /\ hist[j].has = {"output"}

\* C24: the command is spawned only by the spawn step of start(), once, and
\* never by a step of a status() poll or of get-job-status.
C24_NoRespawn ==
  [][proc' = "starting" /\ proc # "starting"
       => /\ proc = "none"
          /\ start.pc = "spawn" /\ start'.pc = "spawned"
          /\ poll' = poll /\ hist' = hist]_vars

C24_Witness ==
  /\ start.pc = "returned"
  /\ proc = "killed"
  /\ \E i \in Returned : hist[i].state = "failed" /\ hist[i].diedAtStart
  /\ Len(hist) = MaxPolls

\* the uploadFile call has been rejected
UploadRejected ==
  up.promise \in {"mkdirError", "keyError", "sftpError", "writeError", "connError",
                  "timeout"}

\* C26: the write of an upload starts only after the mkdir command of the
\* call has run, in the directory when mkdir made it; the call resolves, with
\* the path dir/filename, only when the write was reported successful; a
\* failed connection or write rejects the call, no path is returned, and the
\* write is attempted at most once.
C26_UploadContract ==
  up.pc # "idle" =>
    /\ up.write # "none" => up.mkdir # "none" /\ (up.mkdir = "made" => up.dir)
    /\ up.promise = "resolved" =>
         /\ up.write = "done" /\ up.dir /\ up.file = File(up.content)
         /\ up.result = <<"dir", "/", "input.v">>
    /\ up.error # "none" => UploadRejected
    /\ UploadRejected => up.result = <<>>
    /\ up.writes <= 1

C26_Witness ==
  /\ up.pc = "sftp"
  /\ up.mkdir = "made"
  /\ up.promise = "resolved"
  /\ up.file = File(<<"module", "top">>)

\* C27: of two status() calls on the job directory, the later one returns an
\* elapsed time that is not smaller.
C27_ElapsedNeverDecreases ==
  \A i, j \in Returned :
    i < j => hist[i].elapsedSeconds <= hist[j].elapsedSeconds

\* C28: when the command has ended with exit status 0 and the wrapper has
\* written the marker and exited, no status() call on the job, whenever it
\* was made, has returned failed.
C28_ZeroExitNeverFailed ==
  proc = "exited" /\ exitStatus = 0 /\ exitFile.exists =>
    \A i \in Returned : hist[i].state \in {"running", "completed"}

\* C29: a status() call returns completed only when every command launched
\* in the job directory has terminated with exit status 0.
C29_CompletedIsSound ==
  /\ \A i \in Returned :
       hist[i].state = "completed" => proc = "exited" /\ exitStatus = 0
  /\ sweep.pc # "idle" =>
       \A i \in 1..Len(sweep.polls) :
         sweep.polls[i].state = "completed" =>
           \A k \in 1..Len(sweep.polls[i].procs) :
             /\ sweep.polls[i].procs[k].st = "exited"
             /\ sweep.polls[i].procs[k].status = 0

\* C30: when start() has been rejected, no command spawned by it is running
\* on the host.
C30_RejectedLeavesNothing ==
  start.pc = "rejected" => proc \notin {"starting", "running", "finished", "marking"}

\* the three events of an execute call, as steps: the timer expires, the
\* connection reports an error, the stream closes
TimerExpires == call.timer = "armed" /\ call'.timer = "fired"
ConnectionFails == call.conn # "failed" /\ call'.conn = "failed"
StreamCloses == call.stream = "open" /\ call'.stream = "closed"

\* C31: an execute call settles once: a settled call keeps its outcome and its
\* result whatever event arrives later; on a call that has not settled, the
\* expiry of the timer rejects with the timeout, a connection error rejects
\* with the connection failure and the close of the stream resolves; the
\* output grows only by appending a chunk while the stream is open, and a
\* resolved result is the output as it stood when the stream closed.
C31_FirstEventWins ==
  [][ /\ call.promise # "pending" =>
           call'.promise = call.promise /\ call'.result = call.result
      /\ call.promise = "pending" =>
           /\ TimerExpires => call'.promise = "timeout"
           /\ ConnectionFails => call'.promise = "connError"
           /\ StreamCloses => call'.promise = "resolved" /\ call'.result = call.output
      /\ call'.output # call.output =>
           /\ call.stream = "open"
           /\ \E chunk \in Chunks : call'.output = Append(call.output, chunk)
      /\ call'.promise = "resolved" =>
           call'.stream = "closed" /\ call'.result = call'.output ]_vars

\* the call timed out with two chunks received, and the stream closed later
C31_Witness ==
  /\ call.promise = "timeout"
  /\ call.stream = "closed"
  /\ call.output = <<"out", "err">>

\* the pair of the k-th turn of the nested loops: PDK-major, frequency-minor
SweepPair(k) ==
  variantDir(sweep.pdks[((k - 1) \div Len(sweep.frequencies)) + 1],
             sweep.frequencies[((k - 1) % Len(sweep.frequencies)) + 1])

SweepPairs == Len(sweep.pdks) * Len(sweep.frequencies)

\* how many of the first m turns are about directory d
SweepTurns(d, m) == Cardinality({k \in 1..m : SweepPair(k) = d})

\* C32: design-sweep starts its variants one after the other in PDK-major,
\* frequency-minor order: the directories reported so far are those of the
\* first turns of the loops in order, every one of them has had its command
\* spawned, and beyond them at most the next turn has begun; when the tool
\* returns it reports one directory per pair of the lists, and when a start
\* is rejected the tool is rejected with no later turn begun.
C32_SweepInOrder ==
  sweep.pc # "idle" =>
    LET n == Len(sweep.jobs)
        next == IF n < SweepPairs THEN n + 1 ELSE n
    IN  /\ n <= SweepPairs
        /\ \A k \in 1..n : sweep.jobs[k] = SweepPair(k)
        /\ \A d \in PdkNames \X Frequencies :
             /\ sweep.dirs[d].spawns >= SweepTurns(d, n)
             /\ sweep.dirs[d].spawns <= SweepTurns(d, next)
             /\ sweep.dirs[d].metaWrites >= SweepTurns(d, n)
             /\ sweep.dirs[d].metaWrites <= SweepTurns(d, next)
             /\ sweep.pc \in {"upload", "mkdir", "returned"} =>
                  sweep.dirs[d].metaWrites = SweepTurns(d, n)
        /\ sweep.pc = "returned" => n = SweepPairs

\* a sweep of two PDKs and two frequencies has returned its four directories
C32_Witness ==
  /\ sweep.pc = "returned"
  /\ sweep.pdks = <<"sky130", "asap7">>
  /\ sweep.frequencies = <<100, 200>>
  /\ sweep.jobs = << <<"sky130", 100>>, <<"sky130", 200>>,
                     <<"asap7", 100>>, <<"asap7", 200>> >>

\* C33: whenever a check-drc report has passed = true, its violationCount
\* is 0.
C33_PassedMeansNoViolations ==
  verify.pc = "drc" /\ verify.result = "widget" =>
    (verify.props.passed => verify.props.violationCount = 0)

\* C34: a verify-equivalence output that holds a failure indication (FAIL,
\* mismatch, not equivalent) is reported as FAIL, and PASS is reported only
\* for an output with a pass indication and no failure indication.
C34_FailureNeverPasses ==
  verify.pc = "equiv" /\ verify.result = "text" =>
    /\ failed(verify.output) => verify.status = "FAIL"
    /\ verify.status = "PASS" => passed(verify.output) /\ ~failed(verify.output)

\* C35: an execute call that has settled for a reason other than the timeout
\* (stream close, exec error, connection error, a key that cannot be
\* resolved) has had its timer cancelled, so the timer cannot fire later.
C35_SettledCallHasNoTimer ==
  call.promise \notin {"pending", "timeout"} => call.timer = "cleared"

====
